---- MODULE Spec2Model ----
(***************************************************************************)
(* Schema validation as exercised by lib/builtin.py, lib/partial.py,       *)
(* lib/required.py and lib/type.py: marshmallow Schema classes are         *)
(* declared, instantiated and their load() is called on literal data.      *)
(* The scripts rely on marshmallow 3 semantics (load returns the data or   *)
(* raises ValidationError; see the comments of the scripts), so load, the  *)
(* field classes and the validators are modelled as that library runs them.*)
(*                                                                         *)
(* Python text is a sequence of one-character strings, a dict is a         *)
(* function whose DOMAIN is its key set, a list is a sequence.             *)
(***************************************************************************)
EXTENDS Integers, Sequences, FiniteSets, TLC

VARIABLES
    instances,    \* schema class name -> the Schema instance load is called on
    pc,           \* "idle" | "done" (a load has ended) | "field" | "fielddone"
    call,         \* the arguments of the load call that has ended
    result,       \* how it ended: returned value, or raised ValidationError
    partialUsed,  \* history: some earlier load was passed an exempting partial
    fin,          \* the field and raw value handed to Field.deserialize
    fout          \* what Field.deserialize made of it

vars == <<instances, pc, call, result, partialUsed, fin, fout>>

----------------------------------------------------------------------------
(* Bounds of the model. *)

\* longest batch the generic load action passes
MaxBatch == 2
\* most keys of a generated single record
MaxKeys == 3
\* longest text over EmailAlphabet fed to an Email field
MaxEmailLen == 6
\* longest text over IntAlphabet fed to an Integer field
MaxIntLen == 3
\* integers and tenths of floats range over -MaxNum..MaxNum
MaxNum == 12

----------------------------------------------------------------------------
(* Raw values: text, integers, booleans, floats (in tenths), None, and     *)
(* marshmallow's `missing` sentinel for an absent key.                     *)

Val(k, s, n) == [kind |-> k, s |-> s, n |-> n]
Text(s) == Val("str", s, 0)
IntV(n) == Val("int", <<>>, n)
BoolV(b) == Val("bool", <<>>, IF b THEN 1 ELSE 0)
FloatV(tenths) == Val("float", <<>>, tenths)
NoneV == Val("none", <<>>, 0)
missing == Val("missing", <<>>, 0)

Lower == {"a","b","c","d","e","f","g","h","i","j","k","l","m",
          "n","o","p","q","r","s","t","u","v","w","x","y","z"}
Upper == {"A","B","C","D","E","F","G","H","I","J","K","L","M",
          "N","O","P","Q","R","S","T","U","V","W","X","Y","Z"}
Digit == {"0","1","2","3","4","5","6","7","8","9"}
AlNum == Lower \cup Upper \cup Digit

DigitVal(c) ==
    CASE c = "0" -> 0 [] c = "1" -> 1 [] c = "2" -> 2 [] c = "3" -> 3
      [] c = "4" -> 4 [] c = "5" -> 5 [] c = "6" -> 6 [] c = "7" -> 7
      [] c = "8" -> 8 [] c = "9" -> 9

\* the characters of s, as a set
Chars(s) == {s[i] : i \in 1..Len(s)}

\* the positions at which sub occurs in s
Occurrences(s, sub) ==
    {i \in 1..(Len(s) - Len(sub) + 1) : SubSeq(s, i, i + Len(sub) - 1) = sub}

\* str.split(".") : the pieces between the dots, in order
RECURSIVE SplitFrom(_, _, _)
SplitFrom(s, start, i) ==
    IF i > Len(s) THEN <<SubSeq(s, start, Len(s))>>
    ELSE IF s[i] = "." THEN <<SubSeq(s, start, i - 1)>> \o SplitFrom(s, i + 1, i + 1)
    ELSE SplitFrom(s, start, i + 1)

SplitDots(s) == SplitFrom(s, 1, 1)

\* sequences over S of length 0..n
SeqsUpTo(S, n) == UNION {[1..k -> S] : k \in 0..n}

----------------------------------------------------------------------------
(* Character classes and text helpers used by the validators. *)

LowerSeq == <<"a","b","c","d","e","f","g","h","i","j","k","l","m",
              "n","o","p","q","r","s","t","u","v","w","x","y","z">>
UpperSeq == <<"A","B","C","D","E","F","G","H","I","J","K","L","M",
              "N","O","P","Q","R","S","T","U","V","W","X","Y","Z">>

\* str.lower() of one character
LowerChar(c) ==
    IF c \in Upper
    THEN LowerSeq[CHOOSE i \in 1..Len(UpperSeq) : UpperSeq[i] = c]
    ELSE c

\* str.lower()
ToLower(s) == [i \in 1..Len(s) |-> LowerChar(s[i])]

\* the characters \s matches (the model's text holds no other white space)
Space == {" "}

\* str.strip()
Ink(s) == {i \in 1..Len(s) : s[i] \notin Space}

Least(S) == CHOOSE i \in S : \A j \in S : i <= j

Greatest(S) == CHOOSE i \in S : \A j \in S : j <= i

StripTo(s, ink) == IF ink = {} THEN <<>> ELSE SubSeq(s, Least(ink), Greatest(ink))

Strip(s) == StripTo(s, Ink(s))

----------------------------------------------------------------------------
(* marshmallow.validate.Email *)

\* [-!#$%&'*+/=?^{}|~\w] of USER_REGEX (and the backquote, which no text of
\* the model holds)
AText == AlNum \cup {"_", "-", "!", "#", "$", "%", "&", "'", "*", "+", "/",
                     "=", "?", "^", "{", "}", "|", "~"}

\* [\001-\010\013\014\016-\037!#-\[\]-\177] of USER_REGEX, printable part:
\* every printable character but the space, the double quote and the backslash
QText == AText \cup {".", "@", ":", ",", ";", "(", ")", "<", ">", "[", "]"}

\* the dot-atom alternative of USER_REGEX: ^[atext]+(\.[atext]+)*\Z
Atoms(parts) == \A i \in 1..Len(parts) : parts[i] # <<>> /\ Chars(parts[i]) \subseteq AText

UserDotAtom(u) == u # <<>> /\ Atoms(SplitDots(u))

\* the body of the quoted-string alternative: ([qtext]|\\[any])*
RECURSIVE QuotedBody(_)
QuotedBody(b) ==
    \/ b = <<>>
    \/ /\ b[1] \in QText
       /\ QuotedBody(Tail(b))
    \/ /\ b[1] = "\\"
       /\ Len(b) >= 2
       /\ QuotedBody(SubSeq(b, 3, Len(b)))

\* the quoted-string alternative of USER_REGEX: ^"(...)*"\Z
UserQuoted(u) ==
    /\ Len(u) >= 2
    /\ u[1] = "\""
    /\ u[Len(u)] = "\""
    /\ QuotedBody(SubSeq(u, 2, Len(u) - 1))

USER_REGEX(u) == UserDotAtom(u) \/ UserQuoted(u)

\* [A-Z0-9](?:[A-Z0-9-]{0,61}[A-Z0-9])? under re.IGNORECASE
MaxLabel == 63
DomainLabel(l) ==
    /\ Len(l) >= 1
    /\ Len(l) <= MaxLabel
    /\ l[1] \in AlNum
    /\ l[Len(l)] \in AlNum
    /\ Chars(l) \subseteq AlNum \cup {"-"}

\* (?:[A-Z]{2,6}|[A-Z0-9-]{2,}) under re.IGNORECASE
MaxAlphaTld == 6
DomainTld(l) ==
    \/ /\ Len(l) >= 2
       /\ Len(l) <= MaxAlphaTld
       /\ Chars(l) \subseteq Lower \cup Upper
    \/ /\ Len(l) >= 2
       /\ Chars(l) \subseteq AlNum \cup {"-"}

\* (25[0-5]|2[0-4]\d|[0-1]?\d?\d)
Octet(o) ==
    /\ Len(o) \in 1..3
    /\ Chars(o) \subseteq Digit
    /\ Len(o) = 3 =>
          \/ o[1] \in {"0", "1"}
          \/ o[1] = "2" /\ o[2] \in {"0", "1", "2", "3", "4"}
          \/ o[1] = "2" /\ o[2] = "5" /\ o[3] \in {"0", "1", "2", "3", "4", "5"}

\* the literal form of DOMAIN_REGEX: ^\[octet(\.octet){3}\]\Z
FourOctets(parts) == Len(parts) = 4 /\ \A i \in 1..4 : Octet(parts[i])

DomainLiteral(d) ==
    /\ Len(d) >= 2
    /\ d[1] = "["
    /\ d[Len(d)] = "]"
    /\ FourOctets(SplitDots(SubSeq(d, 2, Len(d) - 1)))

\* (?:label\.)+tld on the pieces between the dots
LabelsThenTld(parts) ==
    /\ Len(parts) >= 2
    /\ \A i \in 1..(Len(parts) - 1) : DomainLabel(parts[i])
    /\ DomainTld(parts[Len(parts)])

\* DOMAIN_REGEX.match(d): (?:label\.)+tld\Z | literal
DOMAIN_REGEX(d) == LabelsThenTld(SplitDots(d)) \/ DomainLiteral(d)

Txt_localhost == <<"l","o","c","a","l","h","o","s","t">>

DOMAIN_WHITELIST == {Txt_localhost}

\* d.encode("idna").decode("ascii") of ASCII text: the text itself, or
\* UnicodeError when a label is empty (a single trailing dot apart) or too long
IdnaLabels(parts, inner) ==
    \A i \in 1..inner : Len(parts[i]) > 0 /\ Len(parts[i]) <= MaxLabel

IdnaParts(d, parts) ==
    IF d = <<>> \/ IdnaLabels(parts, IF Len(parts) >= 2 /\ parts[Len(parts)] = <<>>
                                    THEN Len(parts) - 1 ELSE Len(parts))
    THEN [ok |-> TRUE, s |-> d]
    ELSE [ok |-> FALSE, s |-> <<>>]

IdnaEncode(d) == IdnaParts(d, SplitDots(d))

\* the domain matches once IDNA-encoded
EncodedMatches(enc) == enc.ok /\ DOMAIN_REGEX(enc.s)

\* value.rsplit("@", 1): the position of the last "@"
LastAt(value) == Greatest({i \in 1..Len(value) : value[i] = "@"})

\* the checks of validate.Email.__call__ on the two parts
EmailParts(user_part, domain_part) ==
    IF ~USER_REGEX(user_part) THEN FALSE
    ELSE IF domain_part \in DOMAIN_WHITELIST THEN TRUE
    ELSE IF DOMAIN_REGEX(domain_part) THEN TRUE
    ELSE EncodedMatches(IdnaEncode(domain_part))

EmailSplit(value, at) ==
    EmailParts(SubSeq(value, 1, at - 1), SubSeq(value, at + 1, Len(value)))

\* an Email validator that only looks for an "@"
EmailValidatorAtOnly(value) == value # <<>> /\ "@" \in Chars(value)

\* validate.Email.__call__: TRUE when the text passes
EmailValidator(value) ==
    IF value = <<>> \/ "@" \notin Chars(value) THEN FALSE
    ELSE EmailSplit(value, LastAt(value))

----------------------------------------------------------------------------
(* marshmallow.validate.URL, as fields.URL() builds it: absolute URLs,     *)
(* require_tld, the default schemes.                                       *)

default_schemes ==
    { <<"h","t","t","p">>, <<"h","t","t","p","s">>, <<"f","t","p">>, <<"f","t","p","s">> }

SchemeSep == <<":", "/", "/">>

\* (?:[^:@]+?(:[^:@]*?)?@|) : nothing, or user[:password]@
UserInfo(body) ==
    /\ "@" \notin Chars(body)
    /\ Cardinality({i \in 1..Len(body) : body[i] = ":"}) <= 1
    /\ body[1] # ":"

UrlAuth(a) ==
    \/ a = <<>>
    \/ /\ Len(a) >= 2
       /\ a[Len(a)] = "@"
       /\ UserInfo(SubSeq(a, 1, Len(a) - 1))

\* (?:label\.)+(?:[A-Z]{2,6}\.?|[A-Z0-9-]{2,}\.?)
UrlDomain(h) ==
    LabelsThenTld(SplitDots(IF h # <<>> /\ h[Len(h)] = "."
                            THEN SubSeq(h, 1, Len(h) - 1) ELSE h))

FourNumbers(parts) ==
    /\ Len(parts) = 4
    /\ \A i \in 1..4 : Len(parts[i]) \in 1..3 /\ Chars(parts[i]) \subseteq Digit

\* \d{1,3}\.\d{1,3}\.\d{1,3}\.\d{1,3}
UrlIPv4(h) == FourNumbers(SplitDots(h))

HexDigit == Digit \cup {"a","b","c","d","e","f","A","B","C","D","E","F"}

\* \[[A-F0-9]*:[A-F0-9:]+\]
IPv6Body(body) ==
    /\ Chars(body) \subseteq HexDigit \cup {":"}
    /\ \E i \in 1..(Len(body) - 1) : body[i] = ":"

UrlIPv6(h) ==
    /\ Len(h) >= 4
    /\ h[1] = "["
    /\ h[Len(h)] = "]"
    /\ IPv6Body(SubSeq(h, 2, Len(h) - 1))

UrlHost(h) ==
    \/ UrlDomain(h)
    \/ ToLower(h) \in DOMAIN_WHITELIST
    \/ UrlIPv4(h)
    \/ UrlIPv6(h)

\* (?::\d+)?
UrlPort(p) ==
    \/ p = <<>>
    \/ /\ Len(p) >= 2
       /\ p[1] = ":"
       /\ Chars(Tail(p)) \subseteq Digit

\* (?:/?|[/?]\S+)\Z
UrlPath(p) ==
    \/ p = <<>>
    \/ p = <<"/">>
    \/ /\ Len(p) >= 2
       /\ p[1] \in {"/", "?"}
       /\ Chars(Tail(p)) \cap Space = {}

\* ^(?:[a-z0-9\.\-\+]*)://<auth><host><port><path>\Z under re.IGNORECASE
\* <auth><host><port><path>\Z : some cutting of the text into the four
UrlAfterScheme(rest) ==
    \E b \in 0..Len(rest) : \E c \in b..Len(rest) : \E d \in c..Len(rest) :
        /\ UrlAuth(SubSeq(rest, 1, b))
        /\ UrlHost(SubSeq(rest, b + 1, c))
        /\ UrlPort(SubSeq(rest, c + 1, d))
        /\ UrlPath(SubSeq(rest, d + 1, Len(rest)))

UrlRegex(value) ==
    \E a \in Occurrences(value, SchemeSep) :
        /\ Chars(SubSeq(value, 1, a - 1)) \subseteq AlNum \cup {".", "-", "+"}
        /\ UrlAfterScheme(SubSeq(value, a + 3, Len(value)))

\* if "://" in value: value.split("://")[0].lower() not in self.schemes
BadScheme(value, seps) ==
    seps # {} /\ ToLower(SubSeq(value, 1, Least(seps) - 1)) \notin default_schemes

\* validate.URL.__call__: TRUE when the text passes
UrlValidator(value) ==
    IF value = <<>> THEN FALSE
    ELSE IF BadScheme(value, Occurrences(value, SchemeSep)) THEN FALSE
    ELSE UrlRegex(value)

----------------------------------------------------------------------------
(* marshmallow.fields: Field.deserialize and the String, Integer, Email    *)
(* and URL field classes the schemas declare.                              *)

Ok(v) == [ok |-> TRUE, value |-> v, messages |-> <<>>]
Fail(msg) == [ok |-> FALSE, value |-> missing, messages |-> <<msg>>]

MsgRequired == "Missing data for required field."
MsgNull == "Field may not be null."
MsgUnknown == "Unknown field."

\* default_error_messages["invalid"] of each field class
MsgInvalid(kind) ==
    CASE kind = "String" -> "Not a valid string."
      [] kind = "Integer" -> "Not a valid integer."
      [] kind = "Email" -> "Not a valid email address."
      [] kind = "URL" -> "Not a valid URL."

\* the digits of a Python integer literal: digits, single underscores between
IntDigits(b) ==
    /\ b # <<>>
    /\ Chars(b) \subseteq Digit \cup {"_"}
    /\ b[1] # "_"
    /\ b[Len(b)] # "_"
    /\ \A i \in 1..(Len(b) - 1) : ~(b[i] = "_" /\ b[i + 1] = "_")

RECURSIVE DigitsValue(_, _)
DigitsValue(b, acc) ==
    IF b = <<>> THEN acc
    ELSE IF b[1] = "_" THEN DigitsValue(Tail(b), acc)
    ELSE DigitsValue(Tail(b), 10 * acc + DigitVal(b[1]))

\* int(text): white space stripped, an optional sign, the digits
Signed(t) == t # <<>> /\ t[1] \in {"+", "-"}

ParseDigits(negative, body) ==
    IF ~IntDigits(body) THEN [ok |-> FALSE, n |-> 0]
    ELSE [ok |-> TRUE,
          n |-> IF negative THEN 0 - DigitsValue(body, 0) ELSE DigitsValue(body, 0)]

ParseStripped(t) ==
    IF Signed(t) THEN ParseDigits(t[1] = "-", Tail(t)) ELSE ParseDigits(FALSE, t)

ParseInt(s) == ParseStripped(Strip(s))

\* int(float): truncation toward zero (the float is given in tenths)
TruncTenths(t) == IF t >= 0 THEN t \div 10 ELSE 0 - ((0 - t) \div 10)

\* a String field that stringifies what is not text: str(value)
StringDeserializeStr(kind, value) ==
    IF value.kind = "bool" THEN Ok(Text(IF value.n = 1 THEN <<"T","r","u","e">>
                                        ELSE <<"F","a","l","s","e">>))
    ELSE IF value.kind # "str" THEN Fail(MsgInvalid(kind))
    ELSE Ok(value)

\* String._deserialize
StringDeserialize(kind, value) ==
    IF value.kind # "str" THEN Fail(MsgInvalid(kind)) ELSE Ok(value)

\* Number._validated with num_type = int, strict = False
\* int(text) returned, or raised ValueError
IntegerFromText(kind, parsed) ==
    IF parsed.ok THEN Ok(IntV(parsed.n)) ELSE Fail(MsgInvalid(kind))

\* an Integer field without the check for booleans: int(True) is 1
IntegerDeserializeBool(kind, value) ==
    IF value.kind \in {"bool", "int"} THEN Ok(IntV(value.n))
    ELSE IF value.kind = "float" THEN Ok(IntV(TruncTenths(value.n)))
    ELSE IF value.kind = "str" THEN IntegerFromText(kind, ParseInt(value.s))
    ELSE Fail(MsgInvalid(kind))

\* Number._validated with num_type = int, strict = False
IntegerDeserialize(kind, value) ==
    IF value.kind = "bool" THEN Fail(MsgInvalid(kind))
    ELSE IF value.kind = "int" THEN Ok(IntV(value.n))
    ELSE IF value.kind = "float" THEN Ok(IntV(TruncTenths(value.n)))
    ELSE IF value.kind = "str" THEN IntegerFromText(kind, ParseInt(value.s))
    ELSE Fail(MsgInvalid(kind))

\* Field._validate: the validator the field class installs, run on the output
FieldValidate(kind, output) ==
    CASE kind = "Email" ->
            IF EmailValidator(output.s) THEN Ok(output) ELSE Fail(MsgInvalid(kind))
      [] kind = "URL" ->
            IF UrlValidator(output.s) THEN Ok(output) ELSE Fail(MsgInvalid(kind))
      [] OTHER -> Ok(output)

\* Field._deserialize of the field class
FieldDeserialize(kind, value) ==
    IF kind = "Integer" THEN IntegerDeserialize(kind, value)
    ELSE StringDeserialize(kind, value)

\* Field.deserialize: _validate_missing, _deserialize, _validate
\* self._validate(output) once _deserialize returned; its error otherwise
ThenValidate(kind, res) == IF ~res.ok THEN res ELSE FieldValidate(kind, res.value)

Deserialize(field, value) ==
    IF value = missing /\ field.required THEN Fail(MsgRequired)
    ELSE IF value = NoneV THEN Fail(MsgNull)
    ELSE IF value = missing THEN Ok(missing)
    ELSE ThenValidate(field.kind, FieldDeserialize(field.kind, value))

----------------------------------------------------------------------------
(* Schema._deserialize and Schema._do_load *)

EmptyDict == <<>>

\* dict.get(key, missing)
Get(d, key) == IF key \in DOMAIN d THEN d[key] ELSE missing

\* d[key] = v on a copy
Put(d, key, v) == [k \in DOMAIN d \cup {key} |-> IF k = key THEN v ELSE d[k]]

\* the partial argument: None, a boolean, or a collection of field names
PartialNone == [kind |-> "none", b |-> FALSE, names |-> {}]
PartialBool(b) == [kind |-> "bool", b |-> b, names |-> {}]
PartialNames(S) == [kind |-> "names", b |-> FALSE, names |-> S]

\* a partial collection taken for partial=True
ExemptAll(partial, name) ==
    \/ partial.kind = "bool" /\ partial.b
    \/ partial.kind = "names"

\* partial is True or (partial_is_collection and attr_name in partial)
Exempt(partial, name) ==
    \/ partial.kind = "bool" /\ partial.b
    \/ partial.kind = "names" /\ name \in partial.names

\* a loop body that stores the error and forgets set_value
StoreFieldErrorsOnly(field, res, acc) ==
    IF ~res.ok THEN [acc EXCEPT !.errors = Put(acc.errors, field.name, res.messages)]
    ELSE acc

\* _call_and_store and set_value: an error is stored under the field name, a
\* value other than missing is set in the output
StoreField(field, res, acc) ==
    IF ~res.ok THEN [acc EXCEPT !.errors = Put(acc.errors, field.name, res.messages)]
    ELSE IF res.value # missing THEN [acc EXCEPT !.data = Put(acc.data, field.name, res.value)]
    ELSE acc

\* a loop body that gives up once an error is stored
VisitFieldFirstError(field, raw_value, partial, acc) ==
    IF acc.errors # EmptyDict THEN acc
    ELSE IF raw_value = missing /\ Exempt(partial, field.name) THEN acc
    ELSE StoreField(field, Deserialize(field, raw_value), acc)

\* the body of the loop over load_fields, for one field
VisitField(field, raw_value, partial, acc) ==
    IF raw_value = missing /\ Exempt(partial, field.name) THEN acc
    ELSE StoreField(field, Deserialize(field, raw_value), acc)

\* the loop over load_fields: every field is visited, an error is stored and
\* the loop goes on
RECURSIVE DeserializeFields(_, _, _, _)
DeserializeFields(fields, data, partial, acc) ==
    IF fields = <<>> THEN acc
    ELSE DeserializeFields(Tail(fields), data, partial,
            VisitField(Head(fields), Get(data, Head(fields).name), partial, acc))

FieldNames(fields) == {fields[i].name : i \in 1..Len(fields)}

\* unknown = RAISE, the default: every undeclared key of the record is an error
UnknownErrors(fields, data, errors) ==
    [k \in DOMAIN errors \cup (DOMAIN data \ FieldNames(fields)) |->
        IF k \in DOMAIN errors THEN errors[k] ELSE <<MsgUnknown>>]

\* Schema._deserialize of one mapping
WithUnknown(fields, data, pass) ==
    [data |-> pass.data, errors |-> UnknownErrors(fields, data, pass.errors)]

DeserializeRecord(fields, data, partial) ==
    WithUnknown(fields, data,
        DeserializeFields(fields, data, partial, [data |-> EmptyDict, errors |-> EmptyDict]))

\* errors stored under the one-based position of the record
IndexErrorsOneBased(each) ==
    [data |-> [i \in 1..Len(each) |-> each[i].data],
     errors |-> [idx \in {j \in 1..Len(each) : each[j].errors # EmptyDict} |->
                    each[idx].errors]]

\* ErrorStore with index_errors: the errors of record idx are stored under the
\* zero-based idx
IndexErrors(each) ==
    [data |-> [i \in 1..Len(each) |-> each[i].data],
     errors |-> [idx \in {i - 1 : i \in {j \in 1..Len(each) : each[j].errors # EmptyDict}} |->
                    each[idx + 1].errors]]

\* Schema._deserialize with many: every record of the list is deserialized
DeserializeMany(fields, batch, partial) ==
    IndexErrors([i \in 1..Len(batch) |-> DeserializeRecord(fields, batch[i], partial)])

\* a load that hands back what it deserialized whether errors were stored or not
OutcomeWithData(pass) ==
    IF pass.errors # EmptyDict
    THEN [kind |-> "raised", value |-> <<pass.data>>,
          messages |-> pass.errors, valid_data |-> <<pass.data>>]
    ELSE [kind |-> "returned", value |-> <<pass.data>>,
          messages |-> EmptyDict, valid_data |-> <<>>]

\* the end of Schema._do_load: raise ValidationError(errors, valid_data=result)
\* when errors were stored, return result otherwise
Outcome(pass) ==
    IF pass.errors # EmptyDict
    THEN [kind |-> "raised", value |-> <<>>,
          messages |-> pass.errors, valid_data |-> <<pass.data>>]
    ELSE [kind |-> "returned", value |-> <<pass.data>>,
          messages |-> EmptyDict, valid_data |-> <<>>]

\* Schema.load(data, many=many, partial=partial) on instance self
\* many = self.many if many is None else bool(many)
EffectiveMany(self, many) == IF many = "None" THEN self.many ELSE (many = "True")

\* partial = self.partial if partial is None else partial
EffectivePartial(self, partial) == IF partial.kind = "none" THEN self.partial ELSE partial

DoLoad(fields, data, many, partial) ==
    Outcome(IF many THEN DeserializeMany(fields, data, partial)
            ELSE DeserializeRecord(fields, data, partial))

SchemaLoad(self, data, many, partial) ==
    DoLoad(self.fields, data, EffectiveMany(self, many), EffectivePartial(self, partial))

\* a load that keeps its partial argument on the instance
SelfKeepsPartial(self, partial) ==
    IF partial.kind = "none" THEN self ELSE [self EXCEPT !.partial = partial]

\* load assigns no attribute of the schema instance
SelfAfterLoad(self, partial) == self

----------------------------------------------------------------------------
(* The text literals of the scripts (and "https://company.com", "True"). *)

Txt_DrWags == <<"D","r","."," ","W","a","g","s">>
Txt_MrWags == <<"M","r","."," ","W","a","g","s">>
Txt_email_com == <<"e","m","a","i","l",".","c","o","m">>
Txt_wags_email == <<"w","a","g","s","@","e","m","a","i","l",".","c","o","m">>
Txt_htp_company == <<"h","t","p",":","c","o","m","p","a","n","y",".","c","o","m">>
Txt_https_company == <<"h","t","t","p","s",":","/","/","c","o","m","p","a","n","y",".","c","o","m">>
Txt_none == <<"n","o","n","e">>
Txt_Noam == <<"N","o","a","m">>
Txt_Hammy == <<"H","a","m","m","y">>
Txt_Syrian == <<"S","y","r","i","a","n">>
Txt_Wiggles == <<"W","i","g","g","l","e","s">>
Txt_WinterWhite == <<"W","i","n","t","e","r"," ","W","h","i","t","e">>
Txt_Ariel == <<"A","r","i","e","l">>
Txt_ariel_example == <<"a","r","i","e","l","@","e","x","a","m","p","l","e",".","c","o","m">>
Txt_someone_example == <<"s","o","m","e","o","n","e","@","e","x","a","m","p","l","e",".",".","c","o","m">>
Txt_Sasha == <<"S","a","s","h","a">>
Txt_young == <<"y","o","u","n","g">>
Txt_Cruz == <<"C","r","u","z">>
Txt_cruz_example == <<"c","r","u","z","@","e","x","a","m","p","l","e",".",".","c","o","m">>
Txt_True == <<"T","r","u","e">>

----------------------------------------------------------------------------
(* The Schema classes and the data of the four scripts. *)

\* fields.X(required=...) bound to an attribute name
Fld(name, kind, required) == [name |-> name, kind |-> kind, required |-> required]

\* VetSchema with website declared as fields.Str()
VetSchemaStrWebsite ==
    << Fld("name", "String", FALSE),
       Fld("email", "Email", FALSE),
       Fld("website", "String", FALSE),
       Fld("specialty", "String", FALSE),
       Fld("years_practice", "Integer", FALSE),
       Fld("diploma", "String", FALSE) >>

\* lib/builtin.py: class VetSchema
VetSchema ==
    << Fld("name", "String", FALSE),
       Fld("email", "Email", FALSE),
       Fld("website", "URL", FALSE),
       Fld("specialty", "String", FALSE),
       Fld("years_practice", "Integer", FALSE),
       Fld("diploma", "String", FALSE) >>

\* lib/partial.py: class UserSchema
PartialUserSchema ==
    << Fld("name", "String", TRUE),
       Fld("age", "Integer", TRUE) >>

\* lib/required.py: class HamsterSchema
HamsterSchema ==
    << Fld("name", "String", TRUE),
       Fld("breed", "String", FALSE) >>

\* lib/type.py: class UserSchema
TypeUserSchema ==
    << Fld("name", "String", FALSE),
       Fld("age", "Integer", FALSE),
       Fld("email", "Email", FALSE) >>

SchemaNames == {"VetSchema", "PartialUserSchema", "HamsterSchema", "TypeUserSchema"}

ClassFields(sn) ==
    CASE sn = "VetSchema" -> VetSchema
      [] sn = "PartialUserSchema" -> PartialUserSchema
      [] sn = "HamsterSchema" -> HamsterSchema
      [] sn = "TypeUserSchema" -> TypeUserSchema

\* Schema.__init__(many=..., partial=None): the instance the script builds
NewInstance(sn, many) == [fields |-> ClassFields(sn), many |-> many, partial |-> PartialNone]

vet_data ==
    << [name |-> Text(Txt_DrWags), email |-> Text(Txt_email_com)],
       [name |-> Text(Txt_DrWags), email |-> Text(Txt_wags_email),
        website |-> Text(Txt_htp_company)],
       [name |-> Text(Txt_DrWags), email |-> Text(Txt_wags_email),
        specialty |-> Text(<<>>)],
       [name |-> Text(Txt_DrWags), email |-> Text(Txt_wags_email),
        years_practice |-> IntV(-5)],
       [name |-> Text(Txt_DrWags), email |-> Text(Txt_wags_email),
        diploma |-> Text(Txt_none)],
       [name |-> Text(Txt_MrWags), email |-> Text(Txt_wags_email)] >>

partial_data_1 == [name |-> Text(Txt_Noam), age |-> IntV(42)]

partial_data_2 == [age |-> IntV(42)]

hamster_data ==
    << [name |-> Text(Txt_Hammy), breed |-> Text(Txt_Syrian)],
       [name |-> Text(Txt_Wiggles)],
       [breed |-> Text(Txt_WinterWhite)],
       EmptyDict >>

user_data ==
    << [name |-> Text(Txt_Ariel), age |-> IntV(30), email |-> Text(Txt_ariel_example)],
       [name |-> BoolV(TRUE), age |-> IntV(42), email |-> Text(Txt_someone_example)],
       [name |-> Text(Txt_Sasha), age |-> Text(Txt_young), email |-> Text(Txt_ariel_example)],
       [name |-> Text(Txt_Cruz), age |-> IntV(88), email |-> Text(Txt_cruz_example)] >>

\* the records the scripts pass to each class
SourceRecords(sn) ==
    CASE sn = "VetSchema" -> {vet_data[i] : i \in 1..Len(vet_data)}
      [] sn = "PartialUserSchema" -> {partial_data_1, partial_data_2}
      [] sn = "HamsterSchema" -> {hamster_data[i] : i \in 1..Len(hamster_data)}
      [] sn = "TypeUserSchema" -> {user_data[i] : i \in 1..Len(user_data)}

----------------------------------------------------------------------------
(* The inputs the model passes to load. *)

\* raw values tried for a field of each kind: one the field accepts, one it rejects
ValuePool(kind) ==
    CASE kind = "String" -> {Text(Txt_Noam), BoolV(TRUE)}
      [] kind = "Integer" -> {IntV(42), Text(Txt_young)}
      [] kind = "Email" -> {Text(Txt_wags_email), Text(Txt_email_com)}
      [] kind = "URL" -> {Text(Txt_https_company), Text(Txt_htp_company)}

WithField(rest, field) ==
    rest \cup {Put(r, field.name, v) :
                 r \in {x \in rest : Cardinality(DOMAIN x) < MaxKeys},
                 v \in ValuePool(field.kind)}

\* records over the declared fields; "extra" is a key no schema declares
RECURSIVE RecordsOver(_)
RecordsOver(fields) ==
    IF fields = <<>> THEN {EmptyDict, [extra |-> IntV(1)]}
    ELSE WithField(RecordsOver(Tail(fields)), Head(fields))

SingleRecords(sn) == RecordsOver(ClassFields(sn)) \cup SourceRecords(sn)

BatchRecords(sn) == SourceRecords(sn) \cup {EmptyDict, [extra |-> IntV(1)]}

Batches(sn) == SeqsUpTo(BatchRecords(sn), MaxBatch)

PartialOptions ==
    {PartialNone, PartialBool(TRUE), PartialBool(FALSE),
     PartialNames({"name"}), PartialNames({"name", "age"})}

ManyOptions == {"None", "True", "False"}

\* the partial argument exempts some field
Exempting(partial) ==
    \/ partial.kind = "bool" /\ partial.b
    \/ partial.kind = "names" /\ partial.names # {}

----------------------------------------------------------------------------
(* The state machine: load calls on the schema instances. *)

NoCall == [site |-> "none", schema |-> "none", data |-> <<>>,
           many |-> FALSE, partial |-> PartialNone]
NoResult == [kind |-> "none", value |-> <<>>, messages |-> EmptyDict, valid_data |-> <<>>]
NoField == [kind |-> "none", required |-> FALSE, value |-> missing]
NoOut == [ok |-> FALSE, value |-> missing, messages |-> <<>>]

Init ==
    /\ instances = [sn \in SchemaNames |-> NewInstance(sn, sn # "PartialUserSchema")]
    /\ pc = "idle"
    /\ call = NoCall
    /\ result = NoResult
    /\ partialUsed = FALSE
    /\ fin = NoField
    /\ fout = NoOut

\* self.load(data, many=many, partial=partial), self being instance `self` of sn
Load(site, sn, self, data, many, partial) ==
    /\ pc = "idle"
    /\ call' = [site |-> site, schema |-> sn, data |-> data,
                many |-> EffectiveMany(self, many), partial |-> partial]
    /\ result' = SchemaLoad(self, data, many, partial)
    /\ instances' = [instances EXCEPT ![sn] = SelfAfterLoad(self, partial)]
    /\ partialUsed' = (partialUsed \/ Exempting(partial))
    /\ pc' = "done"
    /\ UNCHANGED <<fin, fout>>

\* a load on the standing instance of a class, on any input of the model
GenericLoad ==
    \E sn \in SchemaNames, many \in ManyOptions, partial \in PartialOptions :
        \E data \in (IF EffectiveMany(instances[sn], many)
                      THEN Batches(sn) ELSE SingleRecords(sn)) :
            Load("generic", sn, instances[sn], data, many, partial)

\* lib/builtin.py: VetSchema(many=True).load(vet_data)
BuiltinScript ==
    Load("builtin", "VetSchema", NewInstance("VetSchema", TRUE),
         vet_data, "None", PartialNone)

\* lib/partial.py: UserSchema().load({"name": "Noam", "age": 42})
PartialScript1 ==
    Load("partial_1", "PartialUserSchema", NewInstance("PartialUserSchema", FALSE),
         partial_data_1, "None", PartialNone)

\* lib/partial.py: UserSchema().load({"age": 42}, partial=("name",))
PartialScript2 ==
    Load("partial_2", "PartialUserSchema", NewInstance("PartialUserSchema", FALSE),
         partial_data_2, "None", PartialNames({"name"}))

\* lib/required.py: HamsterSchema(many=True).load(hamster_data)
RequiredScript ==
    Load("required", "HamsterSchema", NewInstance("HamsterSchema", TRUE),
         hamster_data, "None", PartialNone)

\* lib/type.py: UserSchema(many=True).load(user_data)
TypeScript ==
    Load("type", "TypeUserSchema", NewInstance("TypeUserSchema", TRUE),
         user_data, "None", PartialNone)

\* the caller is done with the outcome (it was printed, or the script ended)
Discard ==
    /\ pc = "done"
    /\ pc' = "idle"
    /\ call' = NoCall
    /\ result' = NoResult
    /\ UNCHANGED <<instances, partialUsed, fin, fout>>

Next ==
    \/ GenericLoad
    \/ BuiltinScript
    \/ PartialScript1
    \/ PartialScript2
    \/ RequiredScript
    \/ TypeScript
    \/ Discard

Spec == Init /\ [][Next]_vars

----------------------------------------------------------------------------
(* Field.deserialize on its own: one field, one raw value. *)

Txt_42 == <<"4","2">>
Txt_a_localhost == <<"a","@","l","o","c","a","l","h","o","s","t">>
Txt_quoted_at == <<"\"","@","\"","@","a","a",".","a","a">>
Txt_spaced == <<"a"," ","b","@","a","a",".","a","a">>
Txt_upper == <<"W","a","g","s","@","E","m","a","i","l",".","C","O","M">>
Txt_literal == <<"a","@","[","1",".","2",".","3",".","2","5","5","]">>
Txt_literal_256 == <<"a","@","[","1",".","2",".","3",".","2","5","6","]">>
Txt_escaped == <<"\"","\\"," ","\"","@","a","a",".","a","a">>
Txt_http_localhost == <<"h","t","t","p",":","/","/","l","o","c","a","l","h","o","s","t",":","8","0","/","x">>
Txt_plus7 == <<" ","+","7"," ">>
Txt_1_000 == <<"1","_","0","0","0">>

Kinds == {"String", "Integer", "Email", "URL"}

EmailAlphabet == {"a", "-", ".", "@"}

IntAlphabet == {"1", "-", "+", " ", "_", "a"}

EmailTexts ==
    SeqsUpTo(EmailAlphabet, MaxEmailLen)
        \cup {Txt_email_com, Txt_wags_email, Txt_ariel_example, Txt_someone_example,
              Txt_cruz_example, Txt_a_localhost, Txt_quoted_at, Txt_spaced, Txt_upper,
              Txt_literal, Txt_literal_256, Txt_escaped}

IntTexts == SeqsUpTo(IntAlphabet, MaxIntLen) \cup {Txt_young, Txt_42, Txt_plus7, Txt_1_000}

StringTexts == {<<>>, Txt_Noam, Txt_DrWags, Txt_none, Txt_True}

UrlTexts == {<<>>, Txt_htp_company, Txt_https_company, Txt_http_localhost, Txt_wags_email}

\* the integers the scripts pass
SourceInts == {30, 42, 88, -5}

OtherValues ==
    {IntV(n) : n \in (0 - MaxNum)..MaxNum \cup SourceInts}
        \cup {FloatV(n) : n \in (0 - MaxNum)..MaxNum}
        \cup {BoolV(TRUE), BoolV(FALSE), NoneV}

TextsFor(kind) ==
    CASE kind = "String" -> StringTexts
      [] kind = "Integer" -> IntTexts
      [] kind = "Email" -> EmailTexts
      [] kind = "URL" -> UrlTexts

FieldInputs ==
    {[kind |-> k, required |-> FALSE, value |-> v] :
        k \in Kinds, v \in OtherValues}
    \cup UNION {{[kind |-> k, required |-> FALSE, value |-> Text(s)] : s \in TextsFor(k)} :
                   k \in Kinds}
    \cup {[kind |-> k, required |-> r, value |-> missing] : k \in Kinds, r \in BOOLEAN}

FieldInit ==
    /\ instances = [sn \in SchemaNames |-> NewInstance(sn, sn # "PartialUserSchema")]
    /\ pc = "field"
    /\ call = NoCall
    /\ result = NoResult
    /\ partialUsed = FALSE
    /\ fin \in FieldInputs
    /\ fout = NoOut

\* fields.X(required=...).deserialize(value)
FieldCall ==
    /\ pc = "field"
    /\ fout' = Deserialize(Fld("field", fin.kind, fin.required), fin.value)
    /\ pc' = "fielddone"
    /\ UNCHANGED <<instances, call, result, partialUsed, fin>>

FieldNext == FieldCall

SpecField == FieldInit /\ [][FieldNext]_vars

----------------------------------------------------------------------------
(* Properties of the field classes (checked under SpecField). *)

\* Field.deserialize has run on a raw value (not on an absent key) of a field
\* of this kind
FieldDone(kind) == pc = "fielddone" /\ fin.kind = kind /\ fin.value # missing

AtPositions(s) == {i \in 1..Len(s) : s[i] = "@"}

DotPositions(s) == {i \in 1..Len(s) : s[i] = "."}

\* no dot first, last, or next to another dot
NoEmptyLabel(s) ==
    /\ s # <<>>
    /\ s[1] # "."
    /\ s[Len(s)] # "."
    /\ \A i \in 1..(Len(s) - 1) : ~(s[i] = "." /\ s[i + 1] = ".")

\* exactly one "@", a non-empty local part, a domain with at least one "." and
\* non-empty labels on both sides of every dot
ClaimedEmail(v) ==
    /\ v.kind = "str"
    /\ Cardinality(AtPositions(v.s)) = 1
    /\ \E at \in AtPositions(v.s) :
          /\ at > 1
          /\ DotPositions(SubSeq(v.s, at + 1, Len(v.s))) # {}
          /\ NoEmptyLabel(SubSeq(v.s, at + 1, Len(v.s)))

\* the number of backslashes right before position i of b
RECURSIVE SlashRun(_, _)
SlashRun(b, i) == IF i > 1 /\ b[i - 1] = "\\" THEN 1 + SlashRun(b, i - 1) ELSE 0

\* position i of b is the second character of a backslash pair
Escaped(b, i) == SlashRun(b, i) % 2 = 1

\* a local part in double quotes: inside, a character is escaped by a
\* backslash or is printable and no space, double quote or backslash
QuotedShape(u) ==
    /\ Len(u) >= 2
    /\ u[1] = "\""
    /\ u[Len(u)] = "\""
    /\ LET b == SubSeq(u, 2, Len(u) - 1)
       IN /\ \A i \in 1..Len(b) : Escaped(b, i) \/ b[i] = "\\" \/ b[i] \in QText
          /\ ~Escaped(b, Len(b) + 1)

\* atoms of letters, digits and !#$%&'*+-/=?^_{|}~ with single dots between
DotAtomShape(u) == NoEmptyLabel(u) /\ Chars(u) \subseteq AText \cup {"."}

\* labels of letters, digits and hyphens with single dots between, at least
\* two of them; every label but the last begins and ends with a letter or a
\* digit and has at most 63 characters, the last has at least two characters
HostShape(d) ==
    /\ DotPositions(d) # {}
    /\ Chars(d) \subseteq AlNum \cup {"-", "."}
    /\ LET last == CHOOSE i \in DotPositions(d) : \A j \in DotPositions(d) : j <= i
       IN /\ Len(d) - last >= 2
          /\ d[1] \in AlNum
          /\ \A i \in DotPositions(d) :
                /\ i > 1
                /\ d[i - 1] \in AlNum
                /\ i < last => d[i + 1] \in AlNum
                /\ \E j \in 0..(i - 1) :
                      /\ j = 0 \/ d[j] = "."
                      /\ i - j - 1 <= MaxLabel
                      /\ \A k \in (j + 1)..(i - 1) : d[k] # "."

\* [n.n.n.n] with four numbers of one to three digits, each at most 255
LiteralShape(d) ==
    /\ Len(d) >= 2
    /\ d[1] = "["
    /\ d[Len(d)] = "]"
    /\ LET parts == SplitDots(SubSeq(d, 2, Len(d) - 1))
       IN /\ Len(parts) = 4
          /\ \A i \in 1..4 :
                /\ Len(parts[i]) \in 1..3
                /\ Chars(parts[i]) \subseteq Digit
                /\ DigitsValue(parts[i], 0) <= 255

EmailShape(s) ==
    \E at \in AtPositions(s) :
        /\ \A j \in AtPositions(s) : j <= at
        /\ \/ DotAtomShape(SubSeq(s, 1, at - 1))
           \/ QuotedShape(SubSeq(s, 1, at - 1))
        /\ \/ SubSeq(s, at + 1, Len(s)) = Txt_localhost
           \/ LiteralShape(SubSeq(s, at + 1, Len(s)))
           \/ HostShape(SubSeq(s, at + 1, Len(s)))

\* C10 as stated, for text: an Email field accepts a text if and only if it has
\* exactly one "@", a non-empty local part and a domain with at least one "."
\* and non-empty labels around every dot, and rejects every other text with
\* 'Not a valid email address.'
C10_AsStated ==
    (FieldDone("Email") /\ fin.value.kind = "str") =>
        /\ fout.ok <=> ClaimedEmail(fin.value)
        /\ ~fout.ok => fout.messages = <<"Not a valid email address.">>

\* C10 amended (values that are text, numbers, booleans or None): an Email
\* field accepts a value if and only if it is text that,
\* cut at its last "@", has a local part that is a dot-atom or a quoted string
\* and a domain that is "localhost", a bracketed IPv4 literal, or two or more
\* dot-separated labels of letters, digits and hyphens (every label but the
\* last beginning and ending with a letter or digit, the last of two or more
\* characters); an accepted value is output unchanged; None is rejected with
\* 'Field may not be null.' and every other value with 'Not a valid email
\* address.'. 'email.com' and the two addresses with consecutive dots are
\* rejected, 'wags@email.com' and 'ariel@example.com' are accepted.
C10_EmailAccepts ==
    FieldDone("Email") =>
        /\ fout.ok <=> (fin.value.kind = "str" /\ EmailShape(fin.value.s))
        /\ fout.ok => fout.value = fin.value
        /\ ~fout.ok =>
              fout.messages = <<IF fin.value = NoneV THEN "Field may not be null."
                                ELSE "Not a valid email address.">>
        /\ fin.value \in {Text(Txt_email_com), Text(Txt_someone_example),
                          Text(Txt_cruz_example)} => ~fout.ok
        /\ fin.value \in {Text(Txt_wags_email), Text(Txt_ariel_example)} => fout.ok

\* an address that fits the stated condition and is rejected: "a@a.a"
C10_Witness ==
    /\ FieldDone("Email")
    /\ fin.value = Text(<<"a", "@", "a", ".", "a">>)
    /\ ClaimedEmail(fin.value)
    /\ ~fout.ok
    /\ fout.messages = <<"Not a valid email address.">>

\* text that int() parses: white space around, an optional sign, then digits
\* with single underscores allowed between them
IntTextShape(s) ==
    \E i \in 1..Len(s), j \in 1..Len(s) :
        /\ i <= j
        /\ \A k \in 1..(i - 1) : s[k] \in Space
        /\ \A k \in (j + 1)..Len(s) : s[k] \in Space
        /\ LET first == IF s[i] \in {"+", "-"} THEN i + 1 ELSE i
           IN /\ first <= j
              /\ s[first] \in Digit
              /\ s[j] \in Digit
              /\ \A k \in first..j : s[k] \in Digit \cup {"_"}
              /\ \A k \in first..(j - 1) : ~(s[k] = "_" /\ s[k + 1] = "_")

IsDigit(c) == c \in Digit

\* the integer such a text stands for
IntTextValue(s) ==
    IF "-" \in Chars(s) THEN 0 - DigitsValue(SelectSeq(s, IsDigit), 0)
    ELSE DigitsValue(SelectSeq(s, IsDigit), 0)

Abs(n) == IF n < 0 THEN 0 - n ELSE n

\* n is the float of t tenths with its fraction dropped
Truncates(n, t) ==
    /\ 10 * Abs(n) <= Abs(t)
    /\ Abs(t) < 10 * Abs(n) + 10
    /\ n # 0 => (n < 0 <=> t < 0)

\* C9 as stated, for integers, booleans, floats and text: an Integer field
\* accepts exactly the inputs that are an integer or a string representing
\* one, and rejects every other input with 'Not a valid integer.'
C9_AsStated ==
    (FieldDone("Integer") /\ fin.value # NoneV) =>
        /\ fout.ok <=> \/ fin.value.kind = "int"
                       \/ fin.value.kind = "str" /\ IntTextShape(fin.value.s)
        /\ ~fout.ok => fout.messages = <<"Not a valid integer.">>

\* C9 amended (inputs that are integers, booleans, finite floats, text or
\* None): an Integer field accepts exactly the integers, the floats, whose
\* fraction it drops, and the text that represents an integer; it rejects None
\* with 'Field may not be null.' and every other input with 'Not a valid
\* integer.'; 'young' is rejected, and 30, 42, 88 and -5 are accepted and
\* output as the same integers.
C9_IntegerAccepts ==
    FieldDone("Integer") =>
        /\ fout.ok <=> \/ fin.value.kind \in {"int", "float"}
                       \/ fin.value.kind = "str" /\ IntTextShape(fin.value.s)
        /\ fout.ok =>
              /\ fout.value.kind = "int"
              /\ fin.value.kind = "int" => fout.value.n = fin.value.n
              /\ fin.value.kind = "float" => Truncates(fout.value.n, fin.value.n)
              /\ fin.value.kind = "str" => fout.value.n = IntTextValue(fin.value.s)
        /\ ~fout.ok =>
              fout.messages = <<IF fin.value = NoneV THEN "Field may not be null."
                                ELSE "Not a valid integer.">>
        /\ fin.value = Text(Txt_young) => ~fout.ok
        /\ fin.value \in {IntV(30), IntV(42), IntV(88), IntV(-5)} => fout = Ok(fin.value)

\* the float -1.2 is accepted and comes out as the integer -1
C9_Witness ==
    /\ FieldDone("Integer")
    /\ fin.value = FloatV(-12)
    /\ fout.ok
    /\ fout.value = IntV(-1)

----------------------------------------------------------------------------
(* Properties of load (checked under Spec). *)

\* the records of the call that ended, in input order
RecordsOf == IF call.many THEN call.data ELSE <<call.data>>

\* the declared fields of the schema that was loaded
Declared == ClassFields(call.schema)

\* the part of the Error Report about the i-th record (i counts from 1)
ReportAt(i) ==
    IF ~call.many THEN result.messages
    ELSE IF (i - 1) \in DOMAIN result.messages THEN result.messages[i - 1]
    ELSE EmptyDict

\* what load made of the i-th record: in the output, or in the exception's
\* valid_data when it raised
DataAt(i) ==
    LET whole == IF result.kind = "returned" THEN result.value[1] ELSE result.valid_data[1]
    IN IF call.many THEN whole[i] ELSE whole

\* the partial option of the call exempts the field: true exempts every field,
\* a set the fields it names
ExemptedByCall(name) ==
    \/ call.partial = PartialBool(TRUE)
    \/ call.partial.kind = "names" /\ name \in call.partial.names

\* the record violates the field's rule: a required field that is absent and
\* not exempted, or a value the field rejects
FieldViolation(field, rec) ==
    IF field.name \notin DOMAIN rec
    THEN field.required /\ ~ExemptedByCall(field.name)
    ELSE ~Deserialize(field, rec[field.name]).ok

\* the names of the declared fields the record violates, and its undeclared keys
Violations(rec) ==
    {Declared[k].name : k \in {j \in 1..Len(Declared) : FieldViolation(Declared[j], rec)}}
        \cup (DOMAIN rec \ FieldNames(Declared))

\* C1: load never short-circuits: the report has an entry for every (record,
\* field) pair with a violation, several fields of one record and records
\* after an invalid one included; the second record of the type.py batch
\* reports both 'name' and 'email', and the third and fourth are reported too.
C1_NoShortCircuit ==
    pc = "done" =>
        /\ \A i \in 1..Len(RecordsOf) :
              \A name \in Violations(RecordsOf[i]) :
                  /\ result.kind = "raised"
                  /\ name \in DOMAIN ReportAt(i)
                  /\ ReportAt(i)[name] # <<>>
        /\ call.site = "type" =>
              /\ DOMAIN result.messages = {1, 2, 3}
              /\ DOMAIN result.messages[1] = {"name", "email"}

C1_Witness ==
    /\ pc = "done"
    /\ call.site = "type"
    /\ Violations(RecordsOf[2]) = {"name", "email"}
    /\ Violations(RecordsOf[4]) = {"email"}
    /\ DOMAIN ReportAt(2) = {"name", "email"}
    /\ DOMAIN ReportAt(4) = {"email"}

\* C2: load is atomic: it ends by returning the coerced output or by raising
\* ValidationError with the report; it raises if and only if some record has
\* a violation, and then returns nothing, not even the valid records.
C2_Atomic ==
    pc = "done" =>
        /\ result.kind \in {"returned", "raised"}
        /\ result.kind = "raised" <=>
              \E i \in 1..Len(RecordsOf) : Violations(RecordsOf[i]) # {}
        /\ result.kind = "raised" =>
              /\ result.value = <<>>
              /\ result.messages # EmptyDict
        /\ result.kind = "returned" =>
              /\ result.messages = EmptyDict
              /\ Len(result.value) = 1
              /\ call.many => Len(result.value[1]) = Len(call.data)

\* the hamster batch: two valid records, two invalid ones, nothing returned
C2_Witness ==
    /\ pc = "done"
    /\ call.site = "required"
    /\ Violations(RecordsOf[1]) = {}
    /\ Violations(RecordsOf[3]) # {}
    /\ result.kind = "raised"
    /\ result.value = <<>>

\* C3: for a declared field absent from a record, 'Missing data for required
\* field.' is recorded if and only if the field is required and not exempted
\* by partial; otherwise the field is left out of the output without an error.
\* load(S, {}) returns {} when S has only optional fields, raises with the
\* error for F when F is required, and returns with partial={F}.
C3_MissingRequired ==
    pc = "done" =>
        /\ \A i \in 1..Len(RecordsOf), k \in 1..Len(Declared) :
              Declared[k].name \notin DOMAIN RecordsOf[i] =>
                  /\ Declared[k].name \in DOMAIN ReportAt(i) <=>
                        (Declared[k].required /\ ~ExemptedByCall(Declared[k].name))
                  /\ Declared[k].name \in DOMAIN ReportAt(i) =>
                        ReportAt(i)[Declared[k].name] = <<"Missing data for required field.">>
                  /\ Declared[k].name \notin DOMAIN DataAt(i)
        /\ (~call.many /\ call.data = EmptyDict) =>
              IF \E k \in 1..Len(Declared) :
                     Declared[k].required /\ ~ExemptedByCall(Declared[k].name)
              THEN result.kind = "raised"
              ELSE result.kind = "returned" /\ result.value = <<EmptyDict>>

\* lib/partial.py's second call: name is required, absent and exempted
C3_Witness ==
    /\ pc = "done"
    /\ call.site = "partial_2"
    /\ "name" \notin DOMAIN call.data
    /\ call.partial = PartialNames({"name"})
    /\ result.kind = "returned"
    /\ result.value = <<[age |-> IntV(42)]>>

\* C4: with many=true the top-level keys of the report are exactly the
\* zero-based positions of the records with a violation; for the hamster
\* batch they are 2 and 3.
C4_BatchKeys ==
    (pc = "done" /\ call.many) =>
        /\ DOMAIN result.messages =
              {i - 1 : i \in {j \in 1..Len(call.data) : Violations(call.data[j]) # {}}}
        /\ call.site = "required" => DOMAIN result.messages = {2, 3}

C4_Witness ==
    /\ pc = "done"
    /\ call.site = "required"
    /\ DOMAIN result.messages = {2, 3}

\* C5: partial holds for the one call it is passed to: whatever loads came
\* before, a load without partial of a record that lacks a required field
\* raises with the missing-required error for it, and the instances keep
\* their field lists, required flags and partial attribute.
C5_PartialPerCall ==
    /\ \A sn \in SchemaNames :
          /\ instances[sn].fields = ClassFields(sn)
          /\ instances[sn].partial = PartialNone
    /\ (pc = "done" /\ call.partial = PartialNone) =>
          \A i \in 1..Len(RecordsOf), k \in 1..Len(Declared) :
              (Declared[k].required /\ Declared[k].name \notin DOMAIN RecordsOf[i]) =>
                  /\ result.kind = "raised"
                  /\ Declared[k].name \in DOMAIN ReportAt(i)
                  /\ ReportAt(i)[Declared[k].name] = <<"Missing data for required field.">>

\* after a load with an exempting partial, {"age": 42} without partial
C5_Witness ==
    /\ partialUsed
    /\ pc = "done"
    /\ call.site = "generic"
    /\ call.schema = "PartialUserSchema"
    /\ call.partial = PartialNone
    /\ call.data = partial_data_2
    /\ result.kind = "raised"
    /\ result.messages = [name |-> <<"Missing data for required field.">>]

\* a valid, well-typed value for a field of this kind: text for String, an
\* integer for Integer, text the validator passes for Email and URL
WellTyped(kind, v) ==
    CASE kind = "String" -> v.kind = "str"
      [] kind = "Integer" -> v.kind = "int"
      [] kind = "Email" -> v.kind = "str" /\ EmailValidator(v.s)
      [] kind = "URL" -> v.kind = "str" /\ UrlValidator(v.s)

\* every declared field the record holds has a valid, well-typed value
OnlyValidValues(rec) ==
    \A k \in 1..Len(Declared) :
        Declared[k].name \in DOMAIN rec => WellTyped(Declared[k].kind, rec[Declared[k].name])

\* the record restricted to the declared fields
Restricted(rec) == [name \in DOMAIN rec \cap FieldNames(Declared) |-> rec[name]]

\* the record holds every required field the call does not exempt
HoldsRequired(rec) ==
    \A k \in 1..Len(Declared) :
        Declared[k].required =>
            Declared[k].name \in DOMAIN rec \/ ExemptedByCall(Declared[k].name)

\* C6 as stated, for records whose keys are all declared: when R holds only
\* valid, well-typed values for declared fields, load(S, R) succeeds and
\* returns R restricted to the declared fields.
C6_AsStated ==
    (/\ pc = "done"
     /\ ~call.many
     /\ DOMAIN call.data \subseteq FieldNames(Declared)
     /\ OnlyValidValues(call.data)) =>
        /\ result.kind = "returned"
        /\ result.value = <<Restricted(call.data)>>

\* C6 amended: when every key of R is a declared field of S, every value of R
\* is valid and well-typed, and R holds every required field that partial does
\* not exempt, load(S, R) succeeds and returns R (for a batch of such records,
\* the batch); {'name': 'Noam', 'age': 42} comes back as it is.
C6_RoundTrip ==
    pc = "done" =>
        /\ (\A i \in 1..Len(RecordsOf) :
               /\ DOMAIN RecordsOf[i] \subseteq FieldNames(Declared)
               /\ OnlyValidValues(RecordsOf[i])
               /\ HoldsRequired(RecordsOf[i])) =>
              /\ result.kind = "returned"
              /\ result.value = <<call.data>>
        /\ call.site = "partial_1" => result.value = <<partial_data_1>>

\* lib/partial.py's first call
C6_Witness ==
    /\ pc = "done"
    /\ call.site = "partial_1"
    /\ ~call.many
    /\ OnlyValidValues(call.data)
    /\ result.kind = "returned"
    /\ result.value = <<[name |-> Text(Txt_Noam), age |-> IntV(42)]>>

\* C7: loading the vet batch with many=true raises with the report
\* {0: {'email': ['Not a valid email address.']}, 1: {'website': ['Not a valid
\* URL.']}} and nothing else: 'email.com' and 'htp:company.com' are rejected,
\* the other four records contribute no entry.
C7_VetReport ==
    (pc = "done" /\ call.site = "builtin") =>
        /\ result.kind = "raised"
        /\ result.messages = (0 :> [email |-> <<"Not a valid email address.">>]
                              @@ 1 :> [website |-> <<"Not a valid URL.">>])

C7_Witness ==
    /\ pc = "done"
    /\ call.site = "builtin"
    /\ call.data = vet_data
    /\ call.many
    /\ result.kind = "raised"
    /\ DOMAIN result.messages = {0, 1}

\* the values of a dict, as a set
Values(d) == {d[k] : k \in DOMAIN d}

\* every value load handed over, returned or in the exception's valid_data
Outputs ==
    UNION {Values(DataAt(i)) : i \in 1..Len(RecordsOf)}

\* C8: a String field never stringifies a boolean: whenever a String field of
\* a record holds a boolean, load raises with 'Not a valid string.' for that
\* field, and the text 'True' is in no output.
C8_NoStringify ==
    pc = "done" =>
        /\ \A i \in 1..Len(RecordsOf), k \in 1..Len(Declared) :
              (/\ Declared[k].kind = "String"
               /\ Declared[k].name \in DOMAIN RecordsOf[i]
               /\ RecordsOf[i][Declared[k].name].kind = "bool") =>
                  /\ result.kind = "raised"
                  /\ result.value = <<>>
                  /\ Declared[k].name \in DOMAIN ReportAt(i)
                  /\ ReportAt(i)[Declared[k].name] = <<"Not a valid string.">>
                  /\ Declared[k].name \notin DOMAIN DataAt(i)
        /\ Text(Txt_True) \notin Outputs

\* the second record of lib/type.py: name = True
C8_Witness ==
    /\ pc = "done"
    /\ call.site = "type"
    /\ call.data[2].name = BoolV(TRUE)
    /\ result.kind = "raised"
    /\ result.messages[1].name = <<"Not a valid string.">>

====
